---- MODULE Spec2Model ----
(***************************************************************************)
(* busride-rs: serving an HTTP application over FastCGI on a Unix socket   *)
(* inherited on file descriptor 0 (src/src/lib.rs).                        *)
(*                                                                         *)
(* Three specifications share the variables below:                        *)
(*   Spec          the process: fd 0 check, listener setup, the biased     *)
(*                 select of the cancellation signal against serve_loop,   *)
(*                 the connection tasks (handler as one step) and the      *)
(*                 runner's drain;                                         *)
(*   SpecConn      one connection task, with                               *)
(*                 handle_fcgi_request_with_axum_app step by step;         *)
(*   SpecTranslate http_request_from_fcgi_request as a function of the     *)
(*                 request's environment.                                  *)
(***************************************************************************)
EXTENDS Integers, Sequences, FiniteSets, TLC

\* ------------------------------------------------------------------ bounds
\* Largest max_connections the process is started with.
MaxConnections == 2
\* Clients that ever connect to the listening socket.
MaxClients == 3
\* Variables in a request's environment (SpecTranslate).
MaxVars == 4
\* Requests served on the connection that SpecConn follows.
MaxRequests == 2
\* Chunks in a request body and in a response body (SpecConn).
MaxChunks == 2

VARIABLES
    entry,            \* which public function was called
    max_connections,  \* its max_connections argument
    fd0,              \* what file descriptor 0 is
    handleOps,        \* operations performed on fd 0, in order
    stderr,           \* diagnostics printed with eprintln!
    pc,               \* position of serve_fcgid_with_graceful_shutdown
    ret,              \* its return value
    permits,          \* free permits of the runner's connection semaphore
    signal,           \* the cancellation future: "pending" or "ready"
    polling,          \* serve_loop is being polled inside select!
    acc,              \* serve_loop's await point: "get_token" or "accept"
    conn              \* per client connection: its life cycle

serverVars == <<entry, max_connections, fd0, handleOps, stderr, pc, ret,
                permits, signal, polling, acc, conn>>

\* State of the one connection task that SpecConn follows step by step.
VARIABLES
    results,   \* what the handler returned for each request of the connection
    req,       \* the FastCGI request being handled: role, env, unread input
    hpc,       \* position of handle_fcgi_request_with_axum_app
    hreq,      \* the http::Request built for the application
    chan,      \* items sent on the body channel and not yet received
    txAlive,   \* body_tx has not been dropped
    rxAlive,   \* the application still holds the body receiver
    ingest,    \* body_tx_fut: "none", "reading" or "done"
    app,       \* app_response_fut: "none", "running" or "responded"
    appGot,    \* items the application has read from the request body
    appEos,    \* the application has read end-of-stream from the body
    resp,      \* the application's response: status and unwritten body items
    out,       \* what was written to the request's output stream, in order
    unread,    \* input items left unread when body_tx_fut finished
    errlog     \* error! events logged while handling the request

connVars == <<results, req, hpc, hreq, chan, txAlive, rxAlive, ingest, app,
              appGot, appEos, resp, out, unread, errlog>>

\* State of SpecTranslate.
VARIABLES
    tEnv,      \* the environment handed to http_request_from_fcgi_request
    tRes       \* its result

transVars == <<tEnv, tRes>>

vars == <<serverVars, connVars, transVars>>

ConnIds == 1..MaxClients

\* ------------------------------------------------------- startup (l. 43-106)
FD_0_IS_TOO_NORMAL == "Fatal error: wasn't executed by a compatible FastCGI client!"

\* What fd 0 may be: a listening Unix socket, the usual stdin kinds, or
\* not an open descriptor at all (metadata() then fails).
Fd0Kinds == {"socket", "file", "tty", "pipe", "closed"}

\* handleOps keeps the first occurrence of each operation on fd 0.
Note(ops, op) == IF \E i \in DOMAIN ops : ops[i] = op THEN ops ELSE Append(ops, op)

\* Variant: the fd 0 test also lets a FIFO through.
IsSocket_OrFifo(kind) == kind \in {"socket", "pipe"}

\* file_type().is_socket()
IsSocket(kind) == kind = "socket"

\* serve_fcgid passes a future that never completes.
Entries == {"serve_fcgid", "serve_fcgid_with_graceful_shutdown"}

InitServer ==
    /\ entry \in Entries
    /\ max_connections \in 1..MaxConnections
    /\ fd0 \in Fd0Kinds
    /\ handleOps = <<>>
    /\ stderr = <<>>
    /\ pc = "check_fd0"
    /\ ret = "none"
    /\ permits = 0
    /\ signal = "pending"
    /\ polling = FALSE
    /\ acc = "get_token"
    /\ conn = [c \in ConnIds |-> "none"]

\* Lines 87-93: metadata of fd 0, then the file type check.
CheckFd0 ==
    /\ pc = "check_fd0"
    /\ handleOps' = Note(handleOps, "metadata")
    /\ IF fd0 = "closed"
          THEN /\ pc' = "returned"
               /\ ret' = "IoError"
               /\ UNCHANGED stderr
          ELSE IF ~IsSocket(fd0)
          THEN /\ pc' = "returned"
               /\ ret' = "Fd0IsTooNormal"
               /\ stderr' = Append(stderr, FD_0_IS_TOO_NORMAL)
          ELSE /\ pc' = "setup_listener"
               /\ UNCHANGED <<ret, stderr>>
    /\ UNCHANGED <<entry, max_connections, fd0, permits, signal, polling, acc, conn,
                   connVars, transVars>>

\* Lines 96-106: adopt fd 0 as a listener, make it non-blocking, register it
\* with the runtime, read its address; then build the runner, whose
\* semaphore starts with max_connections permits.  Each of the three
\* fallible calls may fail (ok = FALSE), which returns the io::Error.
SetupListener ==
    /\ pc = "setup_listener"
    /\ \E ok \in BOOLEAN :
         IF ok
            THEN /\ handleOps' = handleOps \o <<"from_raw_fd", "set_nonblocking", "from_std", "local_addr">>
                 /\ pc' = "select"
                 /\ permits' = max_connections
                 /\ UNCHANGED ret
            ELSE /\ handleOps' = handleOps \o <<"from_raw_fd", "set_nonblocking">>
                 /\ pc' = "returned"
                 /\ ret' = "IoError"
                 /\ UNCHANGED permits
    /\ UNCHANGED <<entry, max_connections, fd0, stderr, signal, polling, acc, conn,
                   connVars, transVars>>

\* ------------------------------------------------- environment of the process
\* A client connects to the listening socket; the kernel queues the
\* connection until accept() takes it.  Connections are numbered in the
\* order they are made, which is the order accept() returns them.
Backlog == {c \in ConnIds : conn[c] = "backlog"}

ClientConnect ==
    /\ fd0 = "socket"
    /\ \E c \in ConnIds :
         /\ conn[c] = "none"
         /\ \A d \in ConnIds : d < c => conn[d] # "none"
         /\ conn' = [conn EXCEPT ![c] = "backlog"]
    /\ UNCHANGED <<entry, max_connections, fd0, handleOps, stderr, pc, ret,
                   permits, signal, polling, acc, connVars, transVars>>

\* Variant: serve_fcgid passes a future that can complete.
SignalMayComplete_Always(e) == e \in Entries

\* Line 59: serve_fcgid passes future::pending(), which never completes;
\* a caller of serve_fcgid_with_graceful_shutdown passes its own future.
SignalMayComplete(e) == e = "serve_fcgid_with_graceful_shutdown"

\* The caller's cancellation future completes.
SignalFires ==
    /\ SignalMayComplete(entry)
    /\ signal = "pending"
    /\ signal' = "ready"
    /\ UNCHANGED <<entry, max_connections, fd0, handleOps, stderr, pc, ret,
                   permits, polling, acc, conn, connVars, transVars>>

\* ------------------------------------------------ the select! (lines 108-113)
\* Variant: a token is handed out without a free permit.
TokenAvailable_Unbounded == permits >= 0

\* The runner's semaphore has a free permit.
TokenAvailable == permits > 0

\* Variant: serve_loop is polled first and the signal only when the
\* acceptor cannot go on.
SignalWins_AcceptorFirst == signal = "ready" /\ ~TokenAvailable

\* `biased;` polls the branches in order: the signal first.
SignalWins == signal = "ready"

\* Variant: the cancelled acceptor's token outlives the select!.
AfterCancel_Kept(p, a) == p

\* Line 113: leaving the select! drops the serve_loop future, and with it
\* the token it holds while it waits in accept().
AfterCancel(p, a) == IF a = "accept" THEN p + 1 ELSE p

\* One poll of the select!.  A ready signal completes its branch: the
\* serve_loop future is dropped, and with it the token it holds while it
\* waits in accept().  Otherwise serve_loop is polled.
PollSelect ==
    /\ pc = "select"
    /\ ~polling
    /\ IF SignalWins
          THEN /\ pc' = "shutdown"
               /\ permits' = AfterCancel(permits, acc)
               /\ acc' = "dropped"
               /\ UNCHANGED polling
          ELSE /\ polling' = TRUE
               /\ UNCHANGED <<pc, permits, acc>>
    /\ UNCHANGED <<entry, max_connections, fd0, handleOps, stderr, ret, signal,
                   conn, connVars, transVars>>

\* ------------------------------------------------- serve_loop (lines 122-160)
\* Line 125: runner.get_token().await takes a permit ...
GetToken ==
    /\ pc = "select" /\ polling
    /\ acc = "get_token"
    /\ TokenAvailable
    /\ permits' = permits - 1
    /\ acc' = "accept"
    /\ UNCHANGED <<entry, max_connections, fd0, handleOps, stderr, pc, ret,
                   signal, polling, conn, connVars, transVars>>

\* ... or is pending while every permit is taken: the poll ends.
GetTokenPending ==
    /\ pc = "select" /\ polling
    /\ acc = "get_token"
    /\ ~TokenAvailable
    /\ polling' = FALSE
    /\ UNCHANGED <<entry, max_connections, fd0, handleOps, stderr, pc, ret,
                   permits, signal, acc, conn, connVars, transVars>>

\* Lines 126, 131-157: accept() returns the oldest queued connection, and a
\* task is spawned for it that owns the token.
AcceptOk ==
    /\ pc = "select" /\ polling
    /\ acc = "accept"
    /\ \E c \in Backlog :
         /\ \A d \in Backlog : c <= d
         /\ conn' = [conn EXCEPT ![c] = "idle"]
    /\ acc' = "get_token"
    /\ handleOps' = Note(handleOps, "accept")
    /\ UNCHANGED <<entry, max_connections, fd0, stderr, pc, ret, permits,
                   signal, polling, connVars, transVars>>

\* Variant: the token of a failed accept is not given back.
AfterAcceptErr_Leaked(p) == p

\* Lines 127-130: `continue` ends the iteration and drops its token, which
\* returns the permit.
AfterAcceptErr(p) == p + 1

\* Lines 127-130: accept() fails; the error is logged and `continue` ends
\* the iteration, which drops the token.
AcceptErr ==
    /\ pc = "select" /\ polling
    /\ acc = "accept"
    /\ permits' = AfterAcceptErr(permits)
    /\ acc' = "get_token"
    /\ handleOps' = Note(handleOps, "accept")
    /\ UNCHANGED <<entry, max_connections, fd0, stderr, pc, ret, signal,
                   polling, conn, connVars, transVars>>

\* accept() is pending while no connection is queued: the poll ends.
AcceptPending ==
    /\ pc = "select" /\ polling
    /\ acc = "accept"
    /\ Backlog = {}
    /\ polling' = FALSE
    /\ UNCHANGED <<entry, max_connections, fd0, handleOps, stderr, pc, ret,
                   permits, signal, acc, conn, connVars, transVars>>

\* ------------------------------------- connection tasks (lines 139-156)
\* What handle_fcgi_request_with_axum_app returns: Ok(ExitStatus::SUCCESS),
\* Ok(ExitStatus::Complete(1)) or Err(io::Error).
HandlerResults == {"SUCCESS", "Complete1", "IoError"}

\* token.run() with the handler's result: an exit status ends the request
\* and the connection waits for the next one; an io::Error ends run(), and
\* with it the task, whose token goes back to the semaphore.
TokenRunNext(res) == IF res = "IoError" THEN "error" ELSE "idle"

\* Variant: the end of one task with an error ends every running task.
TaskMoves_Shared(cs, c, next) ==
    [d \in ConnIds |->
        IF d = c THEN next
        ELSE IF next = "error" /\ cs[d] \in {"idle", "handling"} THEN "error"
        ELSE cs[d]]

\* Lines 139-156: each connection is served by a task of its own, and
\* what run() returns stays in that task.
TaskMoves(cs, c, next) == [cs EXCEPT ![c] = next]

\* The client sends a request on an open connection.
RequestArrives(c) ==
    /\ conn[c] = "idle"
    /\ conn' = [conn EXCEPT ![c] = "handling"]

\* The handler runs to its result (lines 150-152).
HandlerReturns(c) ==
    /\ conn[c] = "handling"
    /\ \E res \in HandlerResults :
         /\ conn' = TaskMoves(conn, c, TokenRunNext(res))
         /\ permits' = IF TokenRunNext(res) = "error" THEN permits + 1 ELSE permits

\* Between requests the client closes the connection, or the transport
\* fails: run() returns, the task ends and its token is released.
ConnectionEnds(c) ==
    /\ conn[c] = "idle"
    /\ \E how \in {"closed", "broken"} : conn' = TaskMoves(conn, c, how)
    /\ permits' = permits + 1

ServeRequest ==
    /\ \E c \in ConnIds : RequestArrives(c)
    /\ UNCHANGED <<entry, max_connections, fd0, handleOps, stderr, pc, ret,
                   permits, signal, polling, acc, connVars, transVars>>

FinishRequest ==
    /\ \E c \in ConnIds : HandlerReturns(c)
    /\ UNCHANGED <<entry, max_connections, fd0, handleOps, stderr, pc, ret,
                   signal, polling, acc, connVars, transVars>>

EndConnection ==
    /\ \E c \in ConnIds : ConnectionEnds(c)
    /\ UNCHANGED <<entry, max_connections, fd0, handleOps, stderr, pc, ret,
                   signal, polling, acc, connVars, transVars>>

\* ------------------------------------------------ shutdown (lines 115-117)
\* Variant: shutdown() returns without waiting for the tokens.
Drained_NoWait == permits >= 0

\* runner.shutdown() completes once every token has been returned.
Drained == permits = max_connections

RunnerShutdown ==
    /\ pc = "shutdown"
    /\ Drained
    /\ pc' = "returned"
    /\ ret' = "Ok"
    /\ UNCHANGED <<entry, max_connections, fd0, handleOps, stderr, permits,
                   signal, polling, acc, conn, connVars, transVars>>

\* ------------------------ http_request_from_fcgi_request (lines 278-322)
\* Strings are TLA+ strings; a character is a string of length 1.
Chars(str) == {SubSeq(str, i, i) : i \in 1..Len(str)}

UpperCase == "ABCDEFGHIJKLMNOPQRSTUVWXYZ"
LowerCase == "abcdefghijklmnopqrstuvwxyz"
Digits == "0123456789"

\* The characters the http crate takes in a method and in a header name
\* (RFC 7230 tchar).
TokenChars == Chars(UpperCase) \cup Chars(LowerCase) \cup Chars(Digits)
              \cup Chars("!#$%&*+-.^_|~")

\* HeaderName stores ASCII letters in lower case and keeps every other
\* character as it is.
LowerChar(ch) ==
    IF ch \in Chars(UpperCase)
       THEN LET i == CHOOSE j \in 1..Len(UpperCase) : SubSeq(UpperCase, j, j) = ch
            IN  SubSeq(LowerCase, i, i)
       ELSE ch

RECURSIVE ToLower(_)
ToLower(str) ==
    IF str = "" THEN ""
    ELSE LowerChar(SubSeq(str, 1, 1)) \o ToLower(SubSeq(str, 2, Len(str)))

\* http::Method::from_bytes
ValidMethod(str) == Len(str) > 0 /\ Chars(str) \subseteq TokenChars

\* http::Uri from bytes: not empty, no space or control character.
ValidUri(str) == Len(str) > 0 /\ Chars(str) \cap {" ", "\t", "\n", "\r"} = {}

\* http::HeaderName::from_bytes
ValidHeaderName(str) == Len(str) > 0 /\ Chars(str) \subseteq TokenChars

\* http::HeaderValue::from_bytes: visible ASCII, space and tab.
ValidHeaderValue(str) == Chars(str) \cap {"\n", "\r"} = {}

\* An environment is the sequence env_iter() yields: <<name, value>> pairs
\* with distinct names.
HasVar(env, name) == \E i \in DOMAIN env : env[i][1] = name

\* req.get_var(name); the value of a variable that is set
GetVar(env, name) == env[CHOOSE i \in DOMAIN env : env[i][1] = name][2]

\* req.get_var(name).unwrap_or(default)
GetVarOr(env, name, default) == IF HasVar(env, name) THEN GetVar(env, name) ELSE default

\* Line 303: k.as_ref().starts_with("HTTP_")
IsHttpVar(k) == Len(k) >= 5 /\ SubSeq(k, 1, 5) = "HTTP_"

\* Variant: the slice starts one byte early and keeps the underscore.
StripPrefix_OffByOne(k) == SubSeq(k, 5, Len(k))

\* Line 304: &k.as_ref()[5..]
StripPrefix(k) == SubSeq(k, 6, Len(k))

\* Lines 295-300: the two headers that have variables of their own.
SpecialHeaders(env) ==
    (IF HasVar(env, "CONTENT_TYPE")
        THEN << <<"Content-Type", GetVar(env, "CONTENT_TYPE")>> >> ELSE <<>>)
    \o
    (IF HasVar(env, "CONTENT_LENGTH")
        THEN << <<"Content-Length", GetVar(env, "CONTENT_LENGTH")>> >> ELSE <<>>)

\* Lines 302-310: the fold over env_iter().
RECURSIVE PrefixedHeaders(_)
PrefixedHeaders(env) ==
    IF env = <<>> THEN <<>>
    ELSE (IF IsHttpVar(Head(env)[1])
             THEN << <<StripPrefix(Head(env)[1]), Head(env)[2]>> >>
             ELSE <<>>)
         \o PrefixedHeaders(Tail(env))

\* What the builder was given, before any of it is validated.
BuilderHeaders(env) == SpecialHeaders(env) \o PrefixedHeaders(env)

NoHttpRequest == [kind |-> "None", method |-> "", uri |-> "", version |-> "", headers |-> <<>>]
HttpError == [kind |-> "Err", method |-> "", uri |-> "", version |-> "", headers |-> <<>>]

\* The builder keeps the first error and body() returns it; otherwise the
\* request has the method, the URI, HTTP/1.1 and the headers, their names
\* in lower case.
HttpRequestFromFcgiRequest(env) ==
    LET method == GetVarOr(env, "REQUEST_METHOD", "GET")
        uri == GetVarOr(env, "REQUEST_URI", "/")
        hs == BuilderHeaders(env)
    IN  IF /\ ValidMethod(method)
           /\ ValidUri(uri)
           /\ \A i \in DOMAIN hs : ValidHeaderName(hs[i][1]) /\ ValidHeaderValue(hs[i][2])
           THEN [kind |-> "Ok", method |-> method, uri |-> uri, version |-> "HTTP/1.1",
                 headers |-> [i \in DOMAIN hs |-> <<ToLower(hs[i][1]), hs[i][2]>>]]
           ELSE HttpError

\* ---------------------------------------------------------- specification
NoRequest == [role |-> "none", env |-> <<>>, body |-> <<>>, input |-> <<>>]
NoResponse == [status |-> 0, body |-> <<>>, rest |-> <<>>]

IdleConn ==
    /\ results = <<>>
    /\ req = NoRequest
    /\ hpc = "none"
    /\ hreq = NoHttpRequest
    /\ chan = <<>>
    /\ txAlive = FALSE
    /\ rxAlive = FALSE
    /\ ingest = "none"
    /\ app = "none"
    /\ appGot = <<>>
    /\ appEos = FALSE
    /\ resp = NoResponse
    /\ out = <<>>
    /\ unread = <<>>
    /\ errlog = {}

IdleTranslate ==
    /\ tEnv = <<>>
    /\ tRes = NoHttpRequest

Init == InitServer /\ IdleConn /\ IdleTranslate

Next ==
    \/ CheckFd0
    \/ SetupListener
    \/ ClientConnect
    \/ SignalFires
    \/ PollSelect
    \/ GetToken
    \/ GetTokenPending
    \/ AcceptOk
    \/ AcceptErr
    \/ AcceptPending
    \/ ServeRequest
    \/ FinishRequest
    \/ EndConnection
    \/ RunnerShutdown

Spec == Init /\ [][Next]_vars

\* The scheduling of the select! task: a pending select! is polled again
\* when one of its branches is woken, and a poll of serve_loop ends: its
\* awaits return Pending when nothing is ready, and the runtime's
\* cooperative budget makes an await that keeps finding work yield.
SpecFair ==
    /\ Spec
    /\ WF_vars(PollSelect)
    /\ WF_vars(GetToken)
    /\ WF_vars(GetTokenPending)
    /\ SF_vars(AcceptOk)
    /\ SF_vars(AcceptPending)

\* ... and runner.shutdown().await completes when the drain is over.
SpecDrain ==
    /\ SpecFair
    /\ WF_vars(RunnerShutdown)

\* ------------------------------------------------------------ claims: Spec
\* Connection tasks that are running: each owns a token.
Running == {c \in ConnIds : conn[c] \in {"idle", "handling"}}

\* Connections accept() has returned so far.
Accepted == {c \in ConnIds : conn[c] \notin {"none", "backlog"}}

\* The token serve_loop holds between get_token() and the spawn.
AcceptorHolds == IF acc = "accept" THEN 1 ELSE 0

\* C1: with max_connections = N, the tokens held by running connection
\* tasks plus the one the acceptor holds while it waits in accept() never
\* exceed N; and while N tasks run, the acceptor sits in get_token() and no
\* step accepts a connection.
C1_AtMostNSlots ==
    /\ [](Cardinality(Running) + AcceptorHolds <= max_connections)
    /\ [](Cardinality(Running) = max_connections /\ pc = "select" => acc = "get_token")
    /\ [][Cardinality(Running) = max_connections => Accepted' = Accepted]_vars

\* N tasks run, a further client is queued, and the acceptor has been
\* polled and found no token.
C1_Witness ==
    /\ pc = "select"
    /\ Cardinality(Running) = max_connections
    /\ Backlog # {}
    /\ acc = "get_token"
    /\ permits = 0
    /\ ~polling

\* C2: once the signal branch of the select! has completed, no connection
\* is accepted any more, and Ok(()) is returned only when no accepted
\* connection task is still running, so none is left inside a request.
C2_GracefulShutdown ==
    /\ [][(pc = "shutdown" \/ pc = "returned") => (Accepted' = Accepted)]_vars
    /\ [](ret = "Ok" => \A c \in ConnIds : conn[c] \notin {"idle", "handling"})
    /\ [](ret = "Ok" => pc = "returned" /\ signal = "ready")

\* The signal has won while a request is in flight and a client is still
\* queued: the drain is waiting.
C2_Witness ==
    /\ pc = "shutdown"
    /\ \E c \in ConnIds : conn[c] = "handling"
    /\ Backlog # {}

\* C3: when fd 0 is open but not a socket, nothing but the metadata call
\* ever touches it: it is never adopted as a listener, never read, written
\* or accepted on, no token is taken, and the call returns the
\* Fd0IsTooNormal error with the fixed diagnostic printed; and fd 0 is
\* adopted only after the metadata check found a socket.
C3_NotASocketFailsFirst ==
    /\ (fd0 \notin {"socket", "closed"} =>
          /\ pc \in {"check_fd0", "returned"}
          /\ \A i \in DOMAIN handleOps : handleOps[i] = "metadata"
          /\ permits = 0 /\ acc = "get_token" /\ Accepted = {}
          /\ (pc = "returned" =>
                /\ ret = "Fd0IsTooNormal"
                /\ stderr = <<FD_0_IS_TOO_NORMAL>>))
    /\ (ret = "Fd0IsTooNormal" => ~IsSocket(fd0))
    /\ (Len(handleOps) > 1 => IsSocket(fd0) /\ handleOps[1] = "metadata")

C3_Witness ==
    /\ fd0 = "tty"
    /\ pc = "returned"
    /\ ret = "Fd0IsTooNormal"
    /\ handleOps = <<"metadata">>

\* The listener was set up: the call has got as far as the select!.
SetupDone == \E i \in DOMAIN handleOps : handleOps[i] = "local_addr"

\* accept() was called at least once.
AcceptCalled == \E i \in DOMAIN handleOps : handleOps[i] = "accept"

\* C14: an Err is returned only from the startup, with no token taken and
\* no accept made; once the select! is reached the call leaves it only
\* for the drain and only when the signal is complete; an accept failure
\* leaves the loop running at its next get_token(); the only return after
\* startup is Ok(()) after the signal and the drain; and under serve_fcgid
\* the signal never completes, so the call never leaves the select!.
C14_OnlyStartupFails ==
    /\ [](ret \in {"IoError", "Fd0IsTooNormal"} =>
            /\ pc = "returned" /\ ~SetupDone /\ ~AcceptCalled
            /\ permits = 0 /\ acc = "get_token" /\ Accepted = {})
    /\ [][pc = "select" => (pc' = "select" \/ (pc' = "shutdown" /\ signal = "ready"))]_vars
    /\ [][(pc = "select" /\ acc = "accept" /\ acc' = "get_token" /\ conn' = conn) =>
            (pc' = "select" /\ ret' = "none" /\ permits' = permits + 1)]_vars
    /\ [](SetupDone /\ pc = "returned" => ret = "Ok" /\ signal = "ready" /\ Drained)
    /\ [](entry = "serve_fcgid" =>
            /\ signal = "pending" /\ ret # "Ok"
            /\ (SetupDone => pc = "select"))

\* Under serve_fcgid an accept has failed, nothing was accepted, and the
\* loop is back in accept() with a token.
C14_Witness ==
    /\ entry = "serve_fcgid"
    /\ pc = "select"
    /\ AcceptCalled /\ Accepted = {}
    /\ acc = "accept"

\* C15: a poll of the select! that finds the signal complete ends in the
\* signal branch: the acceptor takes no step in it and is dropped for
\* good, so nothing is accepted from then on; a signal complete before
\* serving starts leaves the set of accepted connections empty for ever;
\* and a signal that completes while the select! runs always gets its
\* branch taken, however many clients keep connecting.
C15_SignalFirst ==
    /\ [][(pc = "select" /\ ~polling /\ signal = "ready") =>
            /\ Accepted' = Accepted
            /\ \/ (pc' = "shutdown" /\ acc' = "dropped")
               \/ <<pc, acc, polling, permits>>' = <<pc, acc, polling, permits>>
               \/ (<<pc, acc, polling>>' = <<pc, acc, polling>> /\ permits' = permits + 1)]_vars
    /\ [](pc = "shutdown" => acc = "dropped")
    /\ [][acc = "dropped" => (acc' = "dropped" /\ Accepted' = Accepted)]_vars
    /\ []((pc = "setup_listener" /\ signal = "ready") => [](Accepted = {}))
    /\ ((pc = "select" /\ signal = "ready") ~> (pc = "shutdown"))

\* The signal branch was taken with a client queued and no accept ever
\* made.
C15_Witness ==
    /\ pc = "shutdown"
    /\ signal = "ready"
    /\ Backlog # {}
    /\ ~AcceptCalled /\ Accepted = {}

\* C16: the step in which a connection task ends with an I/O error (of
\* the handler, or of the transport between requests) changes no other
\* connection, leaves the call and the accept loop where they are, and
\* gives the task's token back to the loop; a connection error never
\* becomes the result of the call.
C16_ErrorIsLocal ==
    /\ [][\A c \in ConnIds :
            (conn[c] \in {"idle", "handling"} /\ conn'[c] \in {"error", "broken"}) =>
                /\ \A d \in ConnIds \ {c} : conn'[d] = conn[d]
                /\ <<pc, ret, acc, polling, signal>>' = <<pc, ret, acc, polling, signal>>
                /\ permits' = permits + 1]_vars
    /\ []((\E c \in ConnIds : conn[c] \in {"error", "broken"}) => ret \in {"none", "Ok"})

\* After the first connection ended with an error, the second is still
\* inside a request and a third was accepted and waits for a request.
C16_Witness ==
    /\ pc = "select"
    /\ max_connections = 2
    /\ conn[1] = "error"
    /\ conn[2] = "handling"
    /\ conn[3] = "idle"

\* C21: once the runner exists, the free permits plus the tokens held (by
\* running connection tasks and by the acceptor between get_token() and
\* the spawn) are max_connections; the step in which a task exits, in
\* whatever way, frees its token; and a failed accept frees the
\* acceptor's token in the step that takes the loop back to get_token().
C21_NoSlotLeaked ==
    /\ [](SetupDone =>
            /\ permits >= 0
            /\ permits + Cardinality(Running) + AcceptorHolds = max_connections)
    /\ [][\A c \in ConnIds :
            (c \in Running /\ conn'[c] \notin {"idle", "handling"}) =>
                permits' = permits + 1]_vars
    /\ [][(acc = "accept" /\ acc' = "get_token" /\ conn' = conn) =>
            (permits' = permits + 1 /\ Running' = Running)]_vars
    /\ [][(permits' < permits) =>
            (acc = "get_token" /\ acc' = "accept" /\ permits' = permits - 1)]_vars

\* After a task that failed, a task whose client closed, and a third that
\* is still running, every other permit is free again.
C21_Witness ==
    /\ pc = "select"
    /\ conn[1] = "error"
    /\ conn[2] = "closed"
    /\ conn[3] = "idle"
    /\ acc = "get_token"
    /\ permits = max_connections - 1

\* C22: the step in which the signal branch wins gives back the token
\* the acceptor holds, so during the drain only running connection tasks
\* hold tokens and the drain is over as soon as none runs; hence, if from
\* some point on no accepted connection is running, the call returns
\* Ok(()).
C22_DrainNotBlocked ==
    /\ [][(pc = "select" /\ pc' = "shutdown") =>
            (permits' = permits + AcceptorHolds /\ acc' = "dropped")]_vars
    /\ [](pc = "shutdown" => permits + Cardinality(Running) = max_connections)
    /\ []((pc = "shutdown" /\ Running = {}) => Drained)
    /\ []((pc = "shutdown") => ((<>[](Running = {})) => <>(ret = "Ok")))
    /\ ((pc = "shutdown" /\ Running = {}) ~> (ret = "Ok"))

\* Ok(()) was returned although the acceptor, which had been polled and
\* had seen an accept fail, held a token when the signal won: nothing was
\* ever accepted, so no task could have freed the permit it waited with.
C22_Witness ==
    /\ ret = "Ok"
    /\ AcceptCalled
    /\ Accepted = {}

\* ----------------------------------------------------------- SpecTranslate
\* A connection task is running: the state every request is handled in.
Serving ==
    /\ entry = "serve_fcgid_with_graceful_shutdown"
    /\ max_connections = 1
    /\ fd0 = "socket"
    /\ handleOps = <<"metadata", "from_raw_fd", "set_nonblocking", "from_std",
                     "local_addr", "accept">>
    /\ stderr = <<>>
    /\ pc = "select"
    /\ ret = "none"
    /\ permits = 0
    /\ signal = "pending"
    /\ polling = FALSE
    /\ acc = "get_token"

\* The variables a client may send, in env_iter() order, each with the
\* values tried for it.  Some values do not parse: a method with a space,
\* a URI with a space, a header value with a line feed, and HTTP_ alone,
\* which leaves an empty header name.
VarPool == <<
    <<"REQUEST_METHOD", {"GET", "POST", "G T"}>>,
    <<"REQUEST_URI", {"/hi", "/a b"}>>,
    <<"CONTENT_TYPE", {"text/plain"}>>,
    <<"CONTENT_LENGTH", {"2"}>>,
    <<"HTTP_X_TOKEN", {"abc", "a\nb"}>>,
    <<"HTTP_ACCEPT", {"*/*"}>>,
    <<"HTTP_CONTENT_TYPE", {"text/html"}>>,
    <<"HTTP_", {"v"}>>,
    <<"HTTPS", {"on"}>>,
    <<"SERVER_NAME", {"abc"}>> >>

\* Environments of at most k variables drawn from VarPool[i..].
RECURSIVE EnvsFrom(_, _)
EnvsFrom(i, k) ==
    IF i > Len(VarPool) \/ k = 0 THEN {<<>>}
    ELSE EnvsFrom(i + 1, k)
         \cup {<< <<VarPool[i][1], v>> >> \o e : v \in VarPool[i][2], e \in EnvsFrom(i + 1, k - 1)}

Envs == EnvsFrom(1, MaxVars)

InitTranslate ==
    /\ Serving
    /\ conn = [c \in ConnIds |-> IF c = 1 THEN "handling" ELSE "none"]
    /\ IdleConn
    /\ tEnv \in Envs
    /\ tRes = NoHttpRequest

\* Line 199: the handler calls http_request_from_fcgi_request.
Translate ==
    /\ tRes.kind = "None"
    /\ tRes' = HttpRequestFromFcgiRequest(tEnv)
    /\ UNCHANGED <<tEnv, serverVars, connVars>>

NextTranslate == Translate

SpecTranslate == InitTranslate /\ [][NextTranslate]_vars

\* ---------------------------------------------------- claims: SpecTranslate
\* How often the header <<n, v>> occurs in hs.
CountHeader(hs, n, v) == Cardinality({i \in DOMAIN hs : hs[i] = <<n, v>>})

\* The claim's own reading of "starts with HTTP_" and "prefix stripped".
C4_Prefixed(k) == Len(k) > 4 /\ \A i \in 1..5 : SubSeq(k, i, i) = SubSeq("HTTP_", i, i)
C4_Stripped(k) == SubSeq(k, 6, Len(k))

\* How often <<n, v>> must occur: once per HTTP_ variable whose stripped
\* name is n (header names compare without case) and whose value is v, and
\* once more when it is the Content-Type or Content-Length variable.
C4_Expected(env, n, v) ==
    Cardinality({i \in DOMAIN env :
                    /\ C4_Prefixed(env[i][1])
                    /\ ToLower(C4_Stripped(env[i][1])) = n
                    /\ env[i][2] = v})
    + (IF n = "content-type" /\ HasVar(env, "CONTENT_TYPE") /\ GetVar(env, "CONTENT_TYPE") = v
          THEN 1 ELSE 0)
    + (IF n = "content-length" /\ HasVar(env, "CONTENT_LENGTH") /\ GetVar(env, "CONTENT_LENGTH") = v
          THEN 1 ELSE 0)

\* C4: for every environment the request is built from, the method is
\* REQUEST_METHOD, the URI is REQUEST_URI, Content-Type and Content-Length
\* carry the values of CONTENT_TYPE and CONTENT_LENGTH, and the other
\* headers are exactly the HTTP_ variables, prefix stripped and value
\* unchanged: every header comes from such a variable, every such variable
\* is a header, and a variable without the prefix is none.
C4_TranslationExact ==
    tRes.kind = "Ok" =>
      /\ (HasVar(tEnv, "REQUEST_METHOD") => tRes.method = GetVar(tEnv, "REQUEST_METHOD"))
      /\ (HasVar(tEnv, "REQUEST_URI") => tRes.uri = GetVar(tEnv, "REQUEST_URI"))
      /\ \A i \in DOMAIN tRes.headers :
            CountHeader(tRes.headers, tRes.headers[i][1], tRes.headers[i][2])
              = C4_Expected(tEnv, tRes.headers[i][1], tRes.headers[i][2])
      /\ \A i \in DOMAIN tEnv :
            C4_Prefixed(tEnv[i][1]) =>
              CountHeader(tRes.headers, ToLower(C4_Stripped(tEnv[i][1])), tEnv[i][2]) > 0
      /\ (HasVar(tEnv, "CONTENT_TYPE") =>
            CountHeader(tRes.headers, "content-type", GetVar(tEnv, "CONTENT_TYPE")) = 1)
      /\ (HasVar(tEnv, "CONTENT_LENGTH") =>
            CountHeader(tRes.headers, "content-length", GetVar(tEnv, "CONTENT_LENGTH")) = 1)
      /\ Len(tRes.headers) <= Len(tEnv)

\* A request built from an environment with a dedicated variable, a
\* content variable, a prefixed variable and one that is neither.
C4_Witness ==
    /\ tRes.kind = "Ok"
    /\ tRes.method = "POST"
    /\ HasVar(tEnv, "CONTENT_TYPE")
    /\ HasVar(tEnv, "HTTP_X_TOKEN")
    /\ HasVar(tEnv, "SERVER_NAME")
    /\ Len(tRes.headers) = 2

\* ---------------- SpecConn: handle_fcgi_request_with_axum_app (l. 167-270)
procVars == <<entry, max_connections, fd0, handleOps, stderr, pc, ret, signal,
              polling, acc>>
chanVars == <<chan, txAlive, rxAlive, ingest, unread>>
appVars == <<app, appGot, appEos, resp>>

\* An item of a body stream is a chunk of bytes or an error.
IoErrorItem == "io::Error"
ReqChunks == {"a", "b"}
RespChunks == {"ok", "!"}

SeqsUpTo(S, n) == UNION {[1..k -> S] : k \in 0..n}

\* Streams of at most MaxChunks items; an error ends the stream.
Streams(S) ==
    SeqsUpTo(S, MaxChunks)
    \cup {b \o <<IoErrorItem>> : b \in SeqsUpTo(S, MaxChunks - 1)}

Roles == {"Responder", "Authorizer"}

ScenarioEnv == << <<"REQUEST_METHOD", "GET">>, <<"REQUEST_URI", "/hi">>,
                  <<"HTTP_X_TOKEN", "abc">> >>
PostEnv == << <<"REQUEST_METHOD", "POST">>, <<"REQUEST_URI", "/">>,
              <<"CONTENT_LENGTH", "2">> >>
MalformedEnv == << <<"REQUEST_METHOD", "GET">>, <<"REQUEST_URI", "/a b">> >>

ConnEnvs == {ScenarioEnv, PostEnv, MalformedEnv}

\* The requests the client may send on the connection.
Requests ==
    {[role |-> r, env |-> e, body |-> b, input |-> b] :
        r \in Roles, e \in ConnEnvs, b \in Streams(ReqChunks)}

\* The responses the application may give.
Responses ==
    {[status |-> st, body |-> b, rest |-> b] : st \in {200, 404}, b \in Streams(RespChunks)}

\* Variant: the role test is inverted.
RoleRejected_Inverted(role) == role = "Responder"

\* Line 186: req.role() != Role::Responder
RoleRejected(role) == role # "Responder"

\* Variants: a refusal or a write failure reported with the other result.
NonResponderResult_AsError == "IoError"
MalformedResult_AsError == "IoError"
WriteErrorResult_AsComplete == "Complete1"

\* Variant: the channel delivers the newest item first.
ChannelSend_Prepend(q, x) == <<x>> \o q

\* Variant: a failed send does not leave the loop.
AfterFailedSend_KeepReading == "reading"

\* Lines 191 and 207: a request that is refused ends with Complete(1).
NonResponderResult == "Complete1"
MalformedResult == "Complete1"

\* Lines 263 and 266: `?` on a failed write or flush returns the io::Error.
WriteErrorResult == "IoError"

\* Line 227: body_tx.send(x) on the unbounded channel appends to its queue.
ChannelSend(q, x) == Append(q, x)

\* Line 237: a failed send breaks out of the loop.
AfterFailedSend == "done"

\* The handler returns res to token.run().
HandlerReturn(res, kind) ==
    /\ results' = Append(results, [role |-> req.role, kind |-> kind, res |-> res])
    /\ hpc' = "none"
    /\ conn' = TaskMoves(conn, 1, TokenRunNext(res))
    /\ permits' = IF TokenRunNext(res) = "error" THEN permits + 1 ELSE permits

\* token.run() calls the handler with the next request of the connection.
BeginRequest ==
    /\ RequestArrives(1)
    /\ Len(results) < MaxRequests
    /\ \E r \in Requests : req' = r
    /\ hpc' = "role_check"
    /\ hreq' = NoHttpRequest
    /\ chan' = <<>> /\ txAlive' = FALSE /\ rxAlive' = FALSE
    /\ ingest' = "none" /\ unread' = <<>>
    /\ app' = "none" /\ appGot' = <<>> /\ appEos' = FALSE /\ resp' = NoResponse
    /\ out' = <<>>
    /\ errlog' = {}
    /\ UNCHANGED <<results, permits, procVars, transVars>>

\* Lines 186-192.
RoleCheck ==
    /\ hpc = "role_check"
    /\ IF RoleRejected(req.role)
          THEN /\ errlog' = errlog \cup {"non-responder"}
               /\ HandlerReturn(NonResponderResult, hreq.kind)
          ELSE /\ hpc' = "writeable"
               /\ UNCHANGED <<results, conn, permits, errlog>>
    /\ UNCHANGED <<req, hreq, chanVars, appVars, out, procVars, transVars>>

\* Line 196: req.writeable().await?
Writeable ==
    /\ hpc = "writeable"
    /\ \E ok \in BOOLEAN :
         IF ok THEN /\ hpc' = "construct"
                    /\ UNCHANGED <<results, conn, permits>>
               ELSE HandlerReturn("IoError", hreq.kind)
    /\ UNCHANGED <<req, hreq, chanVars, appVars, out, errlog, procVars, transVars>>

\* Lines 199-213 and 246: build the request and its body channel, take the
\* output stream, create the two futures of the join!.
Construct ==
    /\ hpc = "construct"
    /\ LET built == HttpRequestFromFcgiRequest(req.env)
       IN  /\ hreq' = built
           /\ IF built.kind = "Err"
                 THEN /\ errlog' = errlog \cup {"malformed"}
                      /\ HandlerReturn(MalformedResult, built.kind)
                      /\ UNCHANGED <<chanVars, app>>
                 ELSE /\ hpc' = "join"
                      /\ chan' = <<>> /\ txAlive' = TRUE /\ rxAlive' = TRUE
                      /\ ingest' = "reading"
                      /\ app' = "running"
                      /\ UNCHANGED <<results, conn, permits, errlog, unread>>
    /\ UNCHANGED <<req, appGot, appEos, resp, out, procVars, transVars>>

\* Variant: body_tx is not dropped when the loop ends.
BodyTxAfterLoop_Kept == TRUE

\* Line 242: drop(body_tx) once the loop is done; body_tx is alive no more.
BodyTxAfterLoop == FALSE

\* Lines 225-242, one turn of the loop of body_tx_fut: the stream ends and
\* body_tx is dropped; or it yields an item, which is sent; or the send
\* fails because the receiver is gone, which is logged and ends the loop.
IngestNext ==
    /\ hpc = "join"
    /\ ingest = "reading"
    /\ IF req.input = <<>>
          THEN /\ ingest' = "done"
               /\ txAlive' = BodyTxAfterLoop
               /\ unread' = <<>>
               /\ UNCHANGED <<req, chan, errlog>>
          ELSE /\ req' = [req EXCEPT !.input = Tail(req.input)]
               /\ IF rxAlive
                     THEN /\ chan' = ChannelSend(chan, Head(req.input))
                          /\ UNCHANGED <<ingest, txAlive, unread, errlog>>
                     ELSE /\ errlog' = errlog \cup {"receiver dropped"}
                          /\ ingest' = AfterFailedSend
                          /\ txAlive' = IF AfterFailedSend = "done" THEN BodyTxAfterLoop ELSE TRUE
                          /\ unread' = Tail(req.input)
                          /\ UNCHANGED chan
    /\ UNCHANGED <<results, hpc, hreq, rxAlive, appVars, out, conn, permits,
                   procVars, transVars>>

\* Variant: body_tx_fut is awaited to its end before the application's
\* future is polled.
AppPolled_AfterIngest == hpc = "join" /\ ingest = "done"

\* Line 251: join! polls app_response_fut together with body_tx_fut.
AppPolled == hpc = "join"

\* The application reads the next item of the request body.
AppRecv ==
    /\ AppPolled /\ app = "running" /\ rxAlive
    /\ chan # <<>>
    /\ appGot' = Append(appGot, Head(chan))
    /\ chan' = Tail(chan)
    /\ UNCHANGED <<results, req, hpc, hreq, txAlive, rxAlive, ingest, unread,
                   app, appEos, resp, out, errlog, conn, permits, procVars, transVars>>

\* The application reads end-of-stream: the queue is empty and body_tx
\* has been dropped.
AppRecvEos ==
    /\ AppPolled /\ app = "running" /\ rxAlive
    /\ chan = <<>> /\ ~txAlive /\ ~appEos
    /\ appEos' = TRUE
    /\ UNCHANGED <<results, req, hpc, hreq, chanVars, app, appGot, resp, out,
                   errlog, conn, permits, procVars, transVars>>

\* The application drops the request body without reading it to the end.
AppDropBody ==
    /\ AppPolled /\ app = "running" /\ rxAlive
    /\ rxAlive' = FALSE
    /\ chan' = <<>>
    /\ UNCHANGED <<results, req, hpc, hreq, txAlive, ingest, unread, appVars,
                   out, errlog, conn, permits, procVars, transVars>>

\* app_response_fut completes with the application's response; the
\* request, and the body receiver in it, are gone by then.
AppRespond ==
    /\ AppPolled /\ app = "running"
    /\ \E r \in Responses : resp' = r
    /\ app' = "responded"
    /\ rxAlive' = FALSE
    /\ chan' = <<>>
    /\ UNCHANGED <<results, req, hpc, hreq, txAlive, ingest, unread, appGot,
                   appEos, out, errlog, conn, permits, procVars, transVars>>

\* Variant: the wait ends as soon as the application has responded.
JoinComplete_AppOnly == app = "responded"

\* Line 251: tokio::join! is ready when both futures have completed.
JoinComplete == ingest = "done" /\ app = "responded"

\* Line 251: the join! completes when both futures have.
JoinDone ==
    /\ hpc = "join"
    /\ JoinComplete
    /\ hpc' = "write_headers"
    /\ UNCHANGED <<results, req, hreq, chanVars, appVars, out, errlog, conn,
                   permits, procVars, transVars>>

\* A write on the request's output stream, as the log keeps it.
Written(kind, status, data, ok) == [kind |-> kind, status |-> status, data |-> data, ok |-> ok]

\* Lines 333-337: the CGI/1.1 header block of the response, which carries
\* its status.
WriteHeaders ==
    /\ hpc = "write_headers"
    /\ \E ok \in BOOLEAN :
         /\ out' = Append(out, Written("headers", resp.status, "", ok))
         /\ IF ok THEN /\ hpc' = "write_body"
                       /\ UNCHANGED <<results, conn, permits>>
                  ELSE HandlerReturn(WriteErrorResult, hreq.kind)
    /\ UNCHANGED <<req, hreq, chanVars, appVars, errlog, procVars, transVars>>

\* Variant: an error of the response body ends the request with an exit
\* status.
BodyErrorResult_Complete == "Complete1"

\* Line 353: return Err(std::io::Error::other(e)), passed on by the `?`
\* of line 263.
BodyErrorResult == "IoError"

\* Variant: the body's items are taken newest first.
NextHunk_Newest(rest) == rest[Len(rest)]

\* Line 342: body_stream.next() yields the items in production order.
NextHunk(rest) == Head(rest)

\* Lines 342-359, one turn of the loop over the response body: the stream
\* ends; or it yields a chunk, which is written; or it yields an error,
\* which is logged and returned as an io::Error.
WriteBody ==
    /\ hpc = "write_body"
    /\ IF resp.rest = <<>>
          THEN /\ hpc' = "flush"
               /\ UNCHANGED <<results, conn, permits, resp, out, errlog>>
          ELSE IF NextHunk(resp.rest) = IoErrorItem
          THEN /\ errlog' = errlog \cup {"response body"}
               /\ HandlerReturn(BodyErrorResult, hreq.kind)
               /\ UNCHANGED <<resp, out>>
          ELSE /\ \E ok \in BOOLEAN :
                    /\ out' = Append(out, Written("body", 0, NextHunk(resp.rest), ok))
                    /\ IF ok THEN /\ resp' = [resp EXCEPT !.rest = Tail(resp.rest)]
                                  /\ UNCHANGED <<results, hpc, conn, permits>>
                             ELSE /\ HandlerReturn(WriteErrorResult, hreq.kind)
                                  /\ UNCHANGED resp
               /\ UNCHANGED errlog
    /\ UNCHANGED <<req, hreq, chanVars, app, appGot, appEos, procVars, transVars>>

\* Variant: a flushed response is reported as a failed request.
FlushedResult_Complete == "Complete1"

\* Line 269: Ok(ExitStatus::SUCCESS) once the response is flushed.
FlushedResult == "SUCCESS"

\* Lines 266-269: flush the buffered writer, then Ok(ExitStatus::SUCCESS).
Flush ==
    /\ hpc = "flush"
    /\ \E ok \in BOOLEAN :
         /\ out' = Append(out, Written("flush", 0, "", ok))
         /\ HandlerReturn(IF ok THEN FlushedResult ELSE WriteErrorResult, hreq.kind)
    /\ UNCHANGED <<req, hreq, chanVars, appVars, errlog, procVars, transVars>>

\* Between requests the client closes the connection or the transport fails.
ConnEnds ==
    /\ ConnectionEnds(1)
    /\ UNCHANGED <<connVars, procVars, transVars>>

InitConn ==
    /\ Serving
    /\ conn = [c \in ConnIds |-> IF c = 1 THEN "idle" ELSE "none"]
    /\ IdleConn
    /\ IdleTranslate

NextConn ==
    \/ BeginRequest
    \/ RoleCheck
    \/ Writeable
    \/ Construct
    \/ IngestNext
    \/ AppRecv
    \/ AppRecvEos
    \/ AppDropBody
    \/ AppRespond
    \/ JoinDone
    \/ WriteHeaders
    \/ WriteBody
    \/ Flush
    \/ ConnEnds

SpecConn == InitConn /\ [][NextConn]_vars

\* The scheduling inside the join!: the input stream delivers its next
\* item or its end, which wakes body_tx_fut, and an application that is
\* reading the body is woken by a send and by the drop of body_tx.
SpecConnFair ==
    /\ SpecConn
    /\ WF_vars(IngestNext)
    /\ WF_vars(AppRecv)
    /\ WF_vars(AppRecvEos)

\* -------------------------------------------------------- claims: SpecConn
Last(q) == q[Len(q)]

IsPrefix(p, q) == Len(p) <= Len(q) /\ SubSeq(q, 1, Len(p)) = p

\* The items body_tx_fut has read from the input stream so far.
ReadSoFar == SubSeq(req.body, 1, Len(req.body) - Len(req.input))

\* C5: the request {REQUEST_METHOD: GET, REQUEST_URI: /hi, HTTP_X_TOKEN:
\* abc} with an empty body reaches the application as GET /hi with the
\* header x-token: abc and an empty body; and its answer 200 with body "ok"
\* is written as a header block carrying status 200, then exactly the body
\* bytes "ok", then flushed.
C5_Scenario ==
    (/\ hpc = "none"
     /\ req.role = "Responder" /\ req.env = ScenarioEnv /\ req.body = <<>>
     /\ resp.status = 200 /\ resp.body = <<"ok">>
     /\ results # <<>> /\ Last(results).res = "SUCCESS")
    => /\ hreq.kind = "Ok" /\ hreq.method = "GET" /\ hreq.uri = "/hi"
       /\ \E i \in DOMAIN hreq.headers : hreq.headers[i] = <<"x-token", "abc">>
       /\ appGot = <<>>
       /\ out = <<Written("headers", 200, "", TRUE), Written("body", 0, "ok", TRUE),
                  Written("flush", 0, "", TRUE)>>

\* C6: whatever the input stream yields, and however the sends interleave
\* with the application's reads, the application reads the items that were
\* read from the input, in their order, none twice and none missing, and
\* reads end-of-stream only after all of them.
C6_BodyInOrder ==
    /\ IsPrefix(appGot, req.body)
    /\ (rxAlive => appGot \o chan = ReadSoFar)
    /\ (appEos => appGot = req.body /\ req.input = <<>> /\ ~txAlive)

\* The application has read two different chunks and then end-of-stream.
C6_Witness ==
    /\ appEos
    /\ Len(appGot) = 2
    /\ appGot[1] # appGot[2]
    /\ appGot[2] # IoErrorItem

\* The loop of body_tx_fut takes a turn.
IngestTurn == hpc = "join" /\ ingest = "reading" /\ <<req, ingest>>' # <<req, ingest>>

\* C7: when the application has dropped the body receiver, the next item
\* read from the input fails to send: that turn ends the loop and drops
\* body_tx without returning from the handler, whatever is left unread;
\* nothing is read from the input after that.
C7_ConsumerDropped ==
    /\ [][IngestTurn /\ ~rxAlive /\ req.input # <<>> =>
            /\ ingest' = "done" /\ ~txAlive'
            /\ unread' = Tail(req.input) /\ req.input' = unread'
            /\ hpc' = "join" /\ results' = results /\ conn' = conn]_vars
    /\ []("receiver dropped" \in errlog => ingest = "done" /\ ~txAlive /\ req.input = unread)
    /\ [](ingest = "done" => ~txAlive /\ req.input = unread)

\* A send failed with an item still unread, and the request went on to
\* end with SUCCESS.
C7_Witness ==
    /\ "receiver dropped" \in errlog
    /\ unread # <<>>
    /\ hpc = "none"
    /\ Last(results).res = "SUCCESS"

\* C8: a request whose role is not Responder is answered Complete(1) at the
\* role check: the application is not called, nothing is written, the
\* handler does not return an io::Error, and the handler's return leaves
\* the connection task running.
C8_NonResponder ==
    /\ \A i \in DOMAIN results :
          results[i].role # "Responder" =>
             results[i].res = "Complete1" /\ results[i].kind = "None"
    /\ (req.role \notin {"none", "Responder"} =>
          /\ hpc \in {"role_check", "none"}
          /\ out = <<>> /\ app = "none" /\ ingest = "none"
          /\ (hpc = "none" =>
                /\ results # <<>> /\ Last(results).role = req.role
                /\ conn[1] # "error"
                /\ errlog = {"non-responder"}))

\* A request served with SUCCESS after a non-Responder request on the
\* same connection.
C8_Witness ==
    /\ Len(results) = 2
    /\ results[1].role = "Authorizer"
    /\ results[2].role = "Responder"
    /\ results[2].res = "SUCCESS"

\* C9: when the http::Request cannot be built, the request ends with
\* Complete(1), not with an io::Error: the application is not called,
\* nothing is written, and the connection task keeps running.
C9_MalformedRequest ==
    /\ \A i \in DOMAIN results : results[i].kind = "Err" => results[i].res = "Complete1"
    /\ (hreq.kind = "Err" =>
          /\ hpc = "none"
          /\ results # <<>> /\ Last(results).kind = "Err"
          /\ conn[1] # "error"
          /\ out = <<>> /\ app = "none" /\ ingest = "none"
          /\ errlog = {"malformed"})
    /\ (req.env = MalformedEnv => hpc \in {"role_check", "writeable", "construct", "none"})

\* A request served with SUCCESS after a malformed one on the same
\* connection.
C9_Witness ==
    /\ Len(results) = 2
    /\ results[1].kind = "Err"
    /\ results[2].res = "SUCCESS"

\* C10: a failed write of the headers or of a body chunk, or a failed
\* flush, is the last write of the request: the handler has returned an
\* io::Error, and token.run() has ended, so the task has given its token
\* back.
C10_WriteFailure ==
    \A i \in DOMAIN out :
       ~out[i].ok =>
          /\ i = Len(out)
          /\ hpc = "none"
          /\ results # <<>> /\ Last(results).res = "IoError"
          /\ conn[1] = "error"
          /\ permits = 1

\* The write of a body chunk failed after the headers had been written.
C10_Witness ==
    /\ Len(out) = 2
    /\ out[1].ok /\ out[1].kind = "headers"
    /\ ~out[2].ok /\ out[2].kind = "body"

\* The request has ended after a send on the body channel failed because
\* the application had dropped the receiver.
DesyncEnded == "receiver dropped" \in errlog /\ hpc = "none" /\ results # <<>>

\* The response was produced and emitted without a failure.
EmittedClean ==
    /\ \A i \in DOMAIN resp.body : resp.body[i] # IoErrorItem
    /\ \A i \in DOMAIN out : out[i].ok

\* C11 as claimed: a request whose body the application abandoned before
\* ingestion had completed ends with a non-zero exit status, and the
\* connection goes on serving.
C11_DesyncNonZero ==
    DesyncEnded /\ EmittedClean =>
        Last(results).res = "Complete1" /\ conn[1] # "error"

\* C11 as amended: the failed send is only logged; the request goes on to
\* emit the response and ends with what the emission gives, never with a
\* non-zero exit status: SUCCESS exactly when the response was flushed, and
\* then the connection goes on serving.
C11_DesyncLogged ==
    /\ ("receiver dropped" \in errlog => ingest = "done" /\ app # "none")
    /\ (DesyncEnded =>
          /\ Last(results).res \in {"SUCCESS", "IoError"}
          /\ (Last(results).res = "SUCCESS" <=>
                 out # <<>> /\ Last(out) = Written("flush", 0, "", TRUE))
          /\ (Last(results).res = "SUCCESS" => conn[1] # "error")
          /\ (EmittedClean => Last(results).res = "SUCCESS"))

\* The application read a chunk, dropped the body, and the request ended
\* with SUCCESS on a connection that waits for its next request.
C11_Witness ==
    /\ DesyncEnded
    /\ appGot # <<>>
    /\ Last(results).res = "SUCCESS"
    /\ conn[1] = "idle"

\* A read of the request's input stream has failed.
ReadFailed == \E i \in DOMAIN ReadSoFar : ReadSoFar[i] = IoErrorItem

\* C12: whenever a read of the FastCGI input stream has failed, the
\* handler's result is an io::Error, never SUCCESS or a non-zero exit
\* status.
C12_ReadFailureIsIoError ==
    ReadFailed /\ hpc = "none" /\ results # <<>> => Last(results).res = "IoError"

\* C13: from the moment the request is built the application's future is
\* live together with the ingestion loop: while chunks are still unread on
\* the input it can take a queued chunk and it can complete with its
\* response; the join is never entered with the application not started.
C13_AppNotGated ==
    /\ (hpc = "join" => app # "none")
    /\ (hpc = "join" /\ app = "running" => ENABLED AppRespond)
    /\ (hpc = "join" /\ app = "running" /\ rxAlive /\ chan # <<>> => ENABLED AppRecv)

\* The application has read a chunk and has responded while the loop has
\* not finished and a chunk is still unread on the input.
C13_Witness ==
    /\ hpc = "join"
    /\ app = "responded"
    /\ appGot # <<>>
    /\ ingest = "reading"
    /\ req.input # <<>>

\* The successful writes of a response's header block and of body chunks.
HeaderBlock(r) == Written("headers", r.status, "", TRUE)
BodyWrites(b) == [i \in DOMAIN b |-> Written("body", 0, b[i], TRUE)]

\* The items of the response body taken from its stream so far.
Produced == SubSeq(resp.body, 1, Len(resp.body) - Len(resp.rest))

\* The response body's stream has yielded an error.
BodyErrored == "response body" \in errlog

\* C17 as claimed: an error of the response body's stream is logged and
\* ends the write loop, and is not passed on as an io::Error that ends
\* the connection task.
C17_BodyErrorNotIoError ==
    BodyErrored /\ hpc = "none" /\ results # <<>> =>
        Last(results).res # "IoError" /\ conn[1] # "error"

\* C17 as amended: an error of the response body's stream is logged and
\* ends the write loop with nothing further written, not even the flush,
\* and it is returned as an io::Error, which ends the connection task as
\* a failed write does.
C17_BodyErrorEndsConnection ==
    BodyErrored =>
        /\ hpc = "none"
        /\ results # <<>> /\ Last(results).res = "IoError"
        /\ conn[1] = "error" /\ permits = 1
        /\ resp.rest # <<>> /\ Head(resp.rest) = IoErrorItem
        /\ out = <<HeaderBlock(resp)>> \o BodyWrites(Produced)

\* The response body failed after its first chunk had been written.
C17_Witness ==
    /\ BodyErrored
    /\ Len(out) = 2
    /\ out[2].kind = "body" /\ out[2].ok

\* C18: whenever something has been written to the request's output
\* stream, or the handler is at a write, both joined futures have
\* completed: the ingestion loop has ended, by the end of the input or by
\* a failed send, and has dropped body_tx, and the application has
\* returned its response.
C18_NoWriteBeforeJoin ==
    (out # <<>> \/ hpc \in {"write_headers", "write_body", "flush"}) =>
        /\ ingest = "done" /\ ~txAlive
        /\ (req.input = <<>> \/ "receiver dropped" \in errlog)
        /\ app = "responded"
        /\ resp # NoResponse

\* The header block is the only write so far, after a join in which the
\* ingestion ended by a failed send with input left unread.
C18_Witness ==
    /\ hpc = "write_body"
    /\ Len(out) = 1
    /\ "receiver dropped" \in errlog
    /\ unread # <<>>

\* C19: body_tx is dropped only by the turn that ends the ingestion loop,
\* at the end of the input or at a failed send, and a request has one
\* body_tx, created with it; when it is dropped with the receiver still
\* held, every item read has been sent; so an application that holds on to
\* the body eventually reads end-of-stream, the ingestion always finishes,
\* and once the application has read end-of-stream the join waits for
\* nothing but the application's response.
C19_ProducerDroppedOnce ==
    /\ [][(txAlive /\ ~txAlive') =>
            /\ ingest = "reading" /\ ingest' = "done"
            /\ (req.input = <<>> \/ ~rxAlive)]_vars
    /\ [][(~txAlive /\ txAlive') => hpc = "construct"]_vars
    /\ [](ingest = "done" => ~txAlive)
    /\ []((~txAlive /\ rxAlive) => (req.input = <<>> /\ appGot \o chan = req.body))
    /\ [](appEos => ingest = "done")
    /\ ((hpc = "join" /\ rxAlive) ~> (appEos \/ ~rxAlive))
    /\ ((hpc = "join") ~> (ingest = "done"))

\* The application read both chunks and end-of-stream, then responded,
\* and the request ended with SUCCESS.
C19_Witness ==
    /\ hpc = "none"
    /\ appEos
    /\ Len(req.body) = 2 /\ appGot = req.body
    /\ results # <<>> /\ Last(results).res = "SUCCESS"

\* The response body's stream yields chunks only.
CleanResponse == \A i \in DOMAIN resp.body : resp.body[i] # IoErrorItem

\* What a response is to put on the output stream: its header block, its
\* chunks in production order, a flush.
Emission(r) == <<HeaderBlock(r)>> \o BodyWrites(r.body) \o <<Written("flush", 0, "", TRUE)>>

\* C20: what is written is at every moment a prefix of the header block,
\* the body chunks in production order, then the flush, with only the
\* last write possibly failed; a request ends with SUCCESS exactly with
\* the whole of it written, the flush succeeded; and a response produced
\* without error whose writes all succeed is written whole and ends with
\* SUCCESS.
C20_EmissionInOrder ==
    /\ Len(out) <= Len(Emission(resp))
    /\ \A i \in DOMAIN out :
          /\ [out[i] EXCEPT !.ok = TRUE] = Emission(resp)[i]
          /\ (i < Len(out) => out[i].ok)
    /\ (hpc = "none" /\ results # <<>> /\ Last(results).res = "SUCCESS" =>
          out = Emission(resp) /\ CleanResponse)
    /\ (hpc = "none" /\ out # <<>> /\ CleanResponse /\ (\A i \in DOMAIN out : out[i].ok) =>
          out = Emission(resp) /\ Last(results).res = "SUCCESS")

\* A response of two different chunks was written whole and the request
\* ended with SUCCESS.
C20_Witness ==
    /\ hpc = "none"
    /\ results # <<>> /\ Last(results).res = "SUCCESS"
    /\ Len(resp.body) = 2 /\ resp.body[1] # resp.body[2]
    /\ Len(out) = 4

\* The request was refused: its role is not Responder, or building the
\* http::Request failed.
Refused == req.role \notin {"none", "Responder"} \/ hreq.kind = "Err"

\* C23: the application's future is created in one step only, the one
\* that leaves the construction of a Responder request with a request
\* built, and is not created again while the request lasts, so a request
\* that got past the construction has been given to the application once;
\* a refused request never has an application call, a body channel, an
\* ingestion or a write; and a response written whole ends the request
\* with SUCCESS, whatever its status.
C23_AppCalledOnce ==
    /\ [][(app # "running" /\ app' = "running") =>
            /\ app = "none"
            /\ hpc = "construct" /\ hpc' = "join"
            /\ req.role = "Responder" /\ hreq'.kind = "Ok"]_vars
    /\ [][(app # "none" /\ app' = "none") => (hpc = "none" /\ hpc' = "role_check")]_vars
    /\ [][(app = "responded") => (app' # "running")]_vars
    /\ [](hreq.kind = "Ok" => (app # "none" /\ req.role = "Responder"))
    /\ [](hpc \in {"join", "write_headers", "write_body", "flush"} => hreq.kind = "Ok")
    /\ [](Refused =>
            /\ app = "none" /\ resp = NoResponse
            /\ ingest = "none" /\ ~txAlive /\ ~rxAlive /\ chan = <<>>
            /\ req.input = req.body
            /\ out = <<>>)
    /\ []((hpc = "none" /\ out = Emission(resp)) =>
            (results # <<>> /\ Last(results).res = "SUCCESS"))

\* After a refused request, the next one on the connection was answered
\* 404 by the application, written whole, and ended with SUCCESS.
C23_Witness ==
    /\ hpc = "none"
    /\ Len(results) = 2
    /\ results[1].res = "Complete1"
    /\ results[2].res = "SUCCESS"
    /\ resp.status = 404
    /\ out = Emission(resp)

====
